----------------------------- MODULE PickupTasks -----------------------------
(***************************************************************************)
(* The pickup executor and its tasks: pick up and place, pick, place, find *)
(* and hand over.  Each command builds its plan with the calls of the task *)
(* engine and runs it; the operations of all of them share the agent: the  *)
(* object and the receptacle it has settled on, the instances it could not *)
(* reach, the mode of the robot and what the gripper holds.  What cameras, *)
(* planners and motors make of an operation is the environment's choice.   *)
(***************************************************************************)
EXTENDS TaskEngine, SequencesExt

CONSTANTS
  Instance,    \* instances that the agent's memory may hold
  Kind,        \* what an instance is
  Person,      \* the kind that the hand-over looks for
  Commands,    \* commands of the language model, as records
  MaxCommands  \* bound of the search: how many commands are run

ASSUME PickupAssumption ==
  /\ None \notin Instance
  /\ Commands \subseteq [task : {"pickup", "pick", "place", "find", "hand_over"},
                         object : {Kind[i] : i \in Instance},
                         receptacle : {Kind[i] : i \in Instance}]
  /\ {"to_nav", "rotate", "find_receptacle", "find_object", "go_to_object",
      "go_to_receptacle", "pregrasp", "grasp", "place", "update", "say_found", "say_ready",
      "extend_arm", "say_opening", "open_gripper", "say_done", "retract_arm"} \subseteq Op
  /\ MaxCommands \in Nat

VARIABLES
  command,     \* the command being run
  left,        \* how many more may come
  openLoop,    \* grasping without visual servoing, as the program was started
  mode,        \* "navigation" or "manipulation"
  object,      \* agent.current_object
  receptacle,  \* agent.current_receptacle
  unreachable, \* agent.unreachable_instances
  held         \* the instance in the gripper

executor == <<plan, command, left, openLoop>>
agent    == <<object, receptacle, unreachable>>
robot    == <<mode, held>>
vars     == <<executor, loop, agent, robot>>

TypeOK ==
  /\ EngineTypeOK
  /\ command \in Commands \cup {None} /\ left \in 0..MaxCommands /\ openLoop \in BOOLEAN
  /\ mode \in {"navigation", "manipulation"}
  /\ {object, receptacle, held} \subseteq Instance \cup {None}
  /\ unreachable \subseteq Instance

-----------------------------------------------------------------------------
(* The plans: calls of the engine in the order of the get_*_task methods,  *)
(* with add_rotate.  A constructor is <<operation, parent, on_failure,     *)
(* on_cannot_start>>.                                                      *)

Constructed(calls) ==
  FoldLeft(LAMBDA p, c : Construct(p, c[1], c[2], c[3], c[4]), EmptyPlan, calls)

AddedAll(p, ops) == FoldLeft(LAMBDA q, op : AddOperation(q, op, FALSE), p, ops)

Chained(p, ops) ==
  FoldLeft(LAMBDA q, i : ConnectOnSuccess(q, ops[i], ops[i + 1]), p,
           [i \in 1..(Len(ops) - 1) |-> i])

GoToNav     == <<"to_nav", None, "to_nav", None>>
Rotate      == <<"rotate", "to_nav", None, None>>
FindTable   == <<"find_receptacle", "rotate", "find_receptacle", None>>
FindObject  == <<"find_object", None, "find_object", None>>
GoToObject  == <<"go_to_object", "find_object", None, "find_object">>
GoToTable   == <<"go_to_receptacle", None, None, "find_receptacle">>
PreGrasp    == <<"pregrasp", None, "pregrasp", "go_to_object">>
GraspObject == <<"grasp", "pregrasp", "pregrasp", "go_to_object">>
PlaceObject == <<"place", None, None, "go_to_receptacle">>

PickupSteps ==
  <<"to_nav", "rotate", "find_receptacle", "find_object", "go_to_object",
    "pregrasp", "grasp", "go_to_receptacle", "place">>

PickupCalls ==
  AddedAll(Constructed(<<GoToNav, Rotate, FindTable, FindObject, GoToObject,
                         GoToTable, PreGrasp, GraspObject, PlaceObject>>), PickupSteps)

\* Fault: objects are looked for before receptacles.
PickupPlanSwapped ==
  TerminateOnSuccess(
    Chained(PickupCalls, <<"to_nav", "rotate", "find_object", "find_receptacle",
                           "go_to_object", "pregrasp", "grasp", "go_to_receptacle", "place">>),
    "place")

PickupPlan ==
  ConnectOnCannotStart(TerminateOnSuccess(Chained(PickupCalls, PickupSteps), "place"),
                       "go_to_object", "find_object")

PickSteps == <<"to_nav", "rotate", "find_object", "go_to_object", "pregrasp", "grasp">>

PickPlan ==
  LET calls == Chained(AddedAll(Constructed(<<GoToNav, Rotate, FindObject, GoToObject,
                                              PreGrasp, GraspObject>>), PickSteps), PickSteps)
      again == ConnectOnFailure(ConnectOnFailure(calls, "pregrasp", "find_object"),
                                "grasp", "find_object")
  IN TerminateOnSuccess(ConnectOnFailure(again, "go_to_object", "rotate"), "grasp")

FindPlan ==
  LET steps == <<"to_nav", "rotate", "find_object", "go_to_object">>
      calls == AddedAll(Constructed(<<GoToNav, Rotate, FindObject, GoToObject>>), steps)
  IN ConnectOnFailure(Chained(calls, <<"to_nav", "rotate", "find_object">>),
                      "go_to_object", "rotate")

\* The last chain takes the rotation out again.
PlacePlan ==
  LET steps == <<"to_nav", "rotate", "find_receptacle", "go_to_receptacle", "place">>
      calls == AddedAll(Constructed(<<GoToNav, Rotate, FindTable, GoToTable, PlaceObject>>), steps)
  IN TerminateOnSuccess(
       Chained(calls, <<"to_nav", "find_receptacle", "go_to_receptacle", "place">>), "place")

HandOverSteps ==
  <<"update", "say_found", "go_to_object", "say_ready", "extend_arm",
    "say_opening", "open_gripper", "say_done", "retract_arm">>

HandOverPlan ==
  AddedAll(Constructed([i \in DOMAIN HandOverSteps |->
             IF i = 1 THEN <<"update", None, "update", None>>
             ELSE <<HandOverSteps[i], HandOverSteps[i - 1], None, "update">>]), HandOverSteps)

PlanOf(task) ==
  CASE task = "pickup"    -> PickupPlan
    [] task = "pick"      -> PickPlan
    [] task = "place"     -> PlacePlan
    [] task = "find"      -> FindPlan
    [] task = "hand_over" -> HandOverPlan

-----------------------------------------------------------------------------
(* The executor *)

Init ==
  /\ plan = EmptyPlan /\ command = None /\ left = MaxCommands /\ openLoop \in BOOLEAN
  /\ current = None /\ failures = 0 /\ result = "true"
  /\ mode \in {"navigation", "manipulation"}
  /\ object = None /\ receptacle = None /\ unreachable = {} /\ held = None

\* Building a task clears the plans to objects, as a new list of commands does,
\* but neither clears the object and the receptacle.
Begin(c) ==
  /\ current = None /\ result # "building"
  /\ left > 0 /\ left' = left - 1
  /\ command' = c
  /\ plan' = PlanOf(c.task)
  /\ result' = "building"
  /\ unreachable' = {}
  /\ UNCHANGED <<openLoop, current, failures, mode, object, receptacle, held>>

RunTask == result = "building" /\ Start /\ UNCHANGED <<executor, agent, robot>>

-----------------------------------------------------------------------------
(* The operations.  An operation that has run succeeds or fails.           *)

Of(kind) == {i \in Instance : Kind[i] = kind}

\* Moving to a posture need not change the mode.
Posture(m) == mode' \in {mode, m}

Ran(op, successful) == IF successful THEN Succeeds(op) ELSE Fails(op)

\* An exception in an operation ends the task and the list of commands.
Raises == current' = None /\ result' = "raised" /\ UNCHANGED failures

RunGoToNav ==
  /\ current = "to_nav"
  /\ Posture("navigation")
  /\ Ran("to_nav", mode' = "navigation")
  /\ UNCHANGED <<executor, agent, held>>

RunRotate ==
  /\ current = "rotate"
  /\ Posture("navigation")
  /\ Succeeds("rotate") \/ Raises
  /\ UNCHANGED <<executor, agent, held>>

\* Fault: the name is kept, not the instance that was found.
FindsReceptacleByName ==
  \E found \in Of(command.receptacle) \cup {None} :
    /\ receptacle' = IF found = None THEN receptacle ELSE Kind[found]
    /\ unreachable' = IF receptacle' = None THEN {} ELSE unreachable

\* The first match that can be planned to is taken; one of an earlier command
\* counts as found.
FindsReceptacle ==
  \E found \in Of(command.receptacle) \cup {None} :
    \E missed \in SUBSET (Of(command.receptacle) \ {found}) :
      /\ receptacle' = IF found = None THEN receptacle ELSE found
      /\ \/ unreachable' = unreachable \cup missed
         \/ receptacle' = None /\ unreachable' = {}  \* at a frontier

RunFindReceptacle ==
  /\ current = "find_receptacle"
  /\ Posture("navigation")
  /\ FindsReceptacle
  /\ Ran("find_receptacle", receptacle' # None)
  /\ UNCHANGED <<executor, object, held>>

\* Fault: an object of an earlier command counts as found.
FindsObjectKept ==
  \E found \in (Of(command.object) \ unreachable) \cup {None} :
    /\ object' = IF found = None THEN object ELSE found
    /\ unreachable' = IF object' = None THEN {} ELSE unreachable

\* Fault: what could not be reached is remembered for good.
FindsObjectForever ==
  \E found \in (Of(command.object) \ unreachable) \cup {None} :
    object' = found /\ UNCHANGED unreachable

FindsObject ==
  \E found \in (Of(command.object) \ unreachable) \cup {None} :
    /\ object' = found
    /\ unreachable' = IF found = None THEN {} ELSE unreachable

NeedsReceptacle == command.task = "pickup" /\ receptacle = None

\* It may start without a receptacle only in a task that does not need one.
RunFindObject ==
  /\ current = "find_object"
  /\ IF NeedsReceptacle
     THEN CannotStart("find_object") /\ UNCHANGED agent
     ELSE /\ FindsObject
          /\ Ran("find_object", object' # None /\ object' \notin unreachable')
          /\ UNCHANGED receptacle
  /\ UNCHANGED <<executor, robot>>

Target(op) == IF op = "go_to_receptacle" THEN receptacle ELSE object

RunNavigate(op) ==
  /\ current = op
  /\ Target(op) # None
  /\ Posture("navigation")
  /\ Succeeds(op)
  /\ UNCHANGED <<executor, agent, held>>

\* A target that cannot be planned to is marked.
RefuseNavigate(op) ==
  /\ CannotStart(op)
  /\ unreachable' = unreachable \cup ({Target(op)} \ {None})
  /\ UNCHANGED <<executor, object, receptacle, robot>>

RunPreGrasp ==
  /\ current = "pregrasp"
  /\ object # None /\ object \notin unreachable
  /\ Posture("manipulation")
  /\ Ran("pregrasp", mode' = "manipulation")
  /\ UNCHANGED <<executor, agent, held>>

\* Also when the object is too far away.
RefusePreGrasp == CannotStart("pregrasp") /\ UNCHANGED <<executor, agent, robot>>

\* With servoing the gripper is opened first, whatever it holds.
GraspGives(successful) ==
  IF openLoop THEN (IF successful /\ held = None THEN object ELSE held)
  ELSE IF successful THEN object ELSE None

\* The mode is looked at when the grasp is about to start; with servoing it is
\* switched first.
RunGrasp(successful) ==
  /\ current = "grasp"
  /\ IF openLoop THEN UNCHANGED mode ELSE Posture("manipulation")
  /\ IF object # None /\ mode' = "manipulation"
     THEN /\ Ran("grasp", successful)
          /\ held' = GraspGives(successful)
     ELSE CannotStart("grasp") /\ UNCHANGED held
  /\ UNCHANGED <<executor, agent>>

CanPlace == receptacle # None /\ (object # None \/ command.task = "place")

RunPlace ==
  /\ CanPlace
  /\ Succeeds("place")
  /\ held' = None
  /\ mode' \in {"navigation", "manipulation"}
  /\ UNCHANGED <<executor, agent>>

\* No arm configuration reaches the receptacle.
FailPlace ==
  /\ CanPlace
  /\ Fails("place")
  /\ Posture("manipulation")
  /\ UNCHANGED <<executor, agent, held>>

\* Also when the receptacle is too far away.
RefusePlace == CannotStart("place") /\ UNCHANGED <<executor, agent, robot>>

\* A person of this or of an earlier look, or any earlier object.
RunUpdate ==
  /\ current = "update"
  /\ Posture("manipulation")
  /\ object' \in Of(Person) \cup {object}
  /\ Ran("update", object' # None)
  /\ UNCHANGED <<executor, receptacle, unreachable, held>>

RunSpeak(op) == Succeeds(op) /\ UNCHANGED <<executor, agent, robot>>

\* Extending the arm and opening the gripper assert the mode.
RunInManipulation(op) ==
  /\ current = op
  /\ Posture("manipulation")
  /\ IF mode' = "manipulation" THEN Succeeds(op) ELSE Raises
  /\ held' = IF op = "open_gripper" /\ mode' = "manipulation" THEN None ELSE held
  /\ UNCHANGED <<executor, agent>>

Says  == {"say_found", "say_ready", "say_opening", "say_done"}
Moves == {"extend_arm", "open_gripper", "retract_arm"}

Operation ==
  \/ RunGoToNav \/ RunRotate \/ RunFindReceptacle
  \/ RunFindObject
  \/ \E op \in {"go_to_object", "go_to_receptacle"} : RunNavigate(op) \/ RefuseNavigate(op)
  \/ RunPreGrasp \/ RefusePreGrasp
  \/ \E successful \in BOOLEAN : RunGrasp(successful)
  \/ RunPlace \/ FailPlace \/ RefusePlace
  \/ RunUpdate
  \/ (\E op \in Says : RunSpeak(op)) \/ (\E op \in Moves : RunInManipulation(op))

Next == (\E c \in Commands : Begin(c)) \/ RunTask \/ Operation

Spec == Init /\ [][Next]_vars

MayFail ==
  {"to_nav", "find_receptacle", "find_object", "go_to_object", "go_to_receptacle",
   "pregrasp", "grasp", "place", "update"}

\* The executor does not stop within a task.
\* No operation that is reached, and able to start, again and again fails every
\* time.
Fairness ==
  /\ WF_vars(RunTask) /\ WF_vars(Operation)
  /\ \A op \in MayFail : SF_vars(Operation /\ Succeeds(op))

FairSpec == Spec /\ Fairness

-----------------------------------------------------------------------------
(* Properties *)

\* Whatever an operation of a plan needs in order to start was there when its
\* predecessor succeeded, or the plan has somewhere to go back to: no sequence
\* of commands ends in "Cannot start critical operation."
NeverStuck == result # "stuck"

\* A task that ends in success has done what it is named for: a pick holds an
\* instance of the object it was asked for, and a pickup placed one, after all
\* the recoveries in between and whatever earlier commands left behind.  Without
\* servoing the gripper is never opened before a grasp, and an object of an
\* earlier command in it makes this false: the property is about servoing.
IsTarget(i) == i # None /\ Kind[i] = command.object

SuccessIsReal ==
  [][~openLoop =>
       /\ current = "place" /\ result' = "true" /\ command.task = "pickup" => IsTarget(held)
       /\ current = "grasp" /\ result' = "true" => IsTarget(held')]_vars

\* An object that could not be reached is tried again once the robot has moved:
\* with operations that sooner or later succeed, every command comes to an end.
CommandEnds == result = "running" ~> result # "running"

=============================================================================
