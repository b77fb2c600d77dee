---------------------------- MODULE Nav2Adapter ----------------------------
(***************************************************************************)
(* The navigation hooks of the Mars bridge (remote/modules/nav.py and the  *)
(* hooks of remote/server.py): the receive thread of the server calls      *)
(* them, the callbacks of the goals run on the one ROS thread, and Nav2 is *)
(* another process that answers when it likes.  One step is one critical   *)
(* section of _goal_lock, or the calls between two of them.  Spin and      *)
(* NavigateToPose goals take the same steps.                               *)
(***************************************************************************)
EXTENDS Naturals

CONSTANTS
  MaxGoals,      \* bound of the search: how many goals are begun
  None           \* absence

ASSUME AdapterAssumption ==
  /\ MaxGoals \in Nat
  /\ None \notin Nat
  /\ None \notin {"succeeded", "cancelled", "aborted", "rejected", "unknown"}
  /\ None \notin [goal : 1..MaxGoals, cancel : BOOLEAN]

VARIABLES
  pc,              \* where the receive thread is
  found,           \* the goal handle that cancel_navigation has read
  answer,          \* what the latest hook has returned
  generation, atGoal, terminal, resultEvent, cancelRequested,
  handle,          \* the goal whose handle is held
  ros,             \* the response that the ROS thread is handling, or None
  responseDue,     \* goals whose response callback is to run
  resultDue,       \* goals whose result callback is to run
  goal,            \* Nav2: what has become of a goal
  cancelAsked      \* Nav2: goals it has been asked to cancel

caller  == <<pc, found, answer>>
client  == <<generation, atGoal, terminal, resultEvent, cancelRequested, handle>>
futures == <<ros, responseDue, resultDue>>
nav2    == <<goal, cancelAsked>>
vars    == <<caller, client, futures, nav2>>

Goal     == 1..MaxGoals
Ended    == {"succeeded", "cancelled", "aborted"}
Terminal == Ended \cup {"rejected", "unknown"}
Answers  == {"none", "started", "raised", "stopped", "unconfirmed", "succeeded", "failed"}

TypeOK ==
  /\ pc \in {"idle", "begun", "waiting", "cancel", "wait", "read"}
  /\ found \in Goal \cup {None}
  /\ answer \in Answers
  /\ generation \in 0..MaxGoals
  /\ atGoal \in BOOLEAN /\ resultEvent \in BOOLEAN /\ cancelRequested \in BOOLEAN
  /\ terminal \in Terminal \cup {None}
  /\ handle \in Goal \cup {None}
  /\ ros \in [goal : Goal, cancel : BOOLEAN] \cup {None}
  /\ responseDue \subseteq Goal /\ resultDue \subseteq Goal
  /\ goal \in [Goal -> {"unsent", "pending", "executing", "rejected"} \cup Ended]
  /\ cancelAsked \subseteq Goal

Init ==
  /\ pc = "idle" /\ found = None /\ answer = "none"
  /\ generation = 0 /\ atGoal = TRUE /\ terminal = None
  /\ resultEvent = FALSE /\ cancelRequested = FALSE /\ handle = None
  /\ ros = None /\ responseDue = {} /\ resultDue = {}
  /\ goal = [g \in Goal |-> "unsent"]
  /\ cancelAsked = {}

-----------------------------------------------------------------------------
(* Starting: start_navigation_command, move_base_to *)

\* Fault: a goal whose end is not known is taken for one that has ended.
BusyUntilAnswered == ~atGoal

Busy == ~atGoal \/ terminal = "unknown"

\* No odometry, a server of Nav2 that is not ready, or a goal in progress.
StartIsRefused ==
  /\ pc = "idle"
  /\ answer' = "raised"
  /\ UNCHANGED <<pc, found, client, futures, nav2>>

BeginGoal ==
  /\ pc = "idle"
  /\ ~Busy
  /\ generation < MaxGoals
  /\ pc' = "begun"
  /\ generation' = generation + 1
  /\ atGoal' = FALSE
  /\ terminal' = None
  /\ resultEvent' = FALSE
  /\ cancelRequested' = FALSE
  /\ UNCHANGED <<found, answer, handle, futures, nav2>>

\* With nav_blocking the caller waits for the goal.
SendGoal(blocking) ==
  /\ pc = "begun"
  /\ pc' = IF blocking THEN "waiting" ELSE "idle"
  /\ answer' = "started"
  /\ goal' = [goal EXCEPT ![generation] = "pending"]
  /\ responseDue' = responseDue \cup {generation}
  /\ UNCHANGED <<found, client, ros, resultDue, cancelAsked>>

\* Sending raises, before Nav2 has the goal or after; no callback will run.
SendRaises ==
  /\ pc = "begun"
  /\ pc' = "idle"
  /\ answer' = "raised"
  /\ goal' \in {goal, [goal EXCEPT ![generation] = "pending"]}
  /\ UNCHANGED <<found, client, futures, cancelAsked>>

-----------------------------------------------------------------------------
(* Polling: navigation_command_result; _wait_for_goal.  Whether the robot  *)
(* was measured near the goal is the environment's choice.                 *)

Outcome(near) == IF terminal = "succeeded" /\ near THEN "succeeded" ELSE "failed"

Poll(near) ==
  /\ pc = "idle"
  /\ terminal # None
  /\ answer' = Outcome(near)
  /\ UNCHANGED <<pc, found, client, futures, nav2>>

WaitEnds(near) ==
  /\ pc = "waiting"
  /\ atGoal
  /\ pc' = "idle"
  /\ answer' = Outcome(near)
  /\ UNCHANGED <<found, client, futures, nav2>>

-----------------------------------------------------------------------------
(* Stopping: cancel_navigation *)

\* Also the end of a blocking wait that has timed out.
CancelBegins ==
  /\ pc \in {"idle", "waiting"}
  /\ cancelRequested' = TRUE
  /\ found' = handle
  /\ pc' = IF handle = None THEN "wait" ELSE "cancel"
  /\ UNCHANGED <<answer, generation, atGoal, terminal, resultEvent, handle, futures, nav2>>

CancelIsSent ==
  /\ pc = "cancel"
  /\ pc' = "wait"
  /\ cancelAsked' = cancelAsked \cup {found}
  /\ UNCHANGED <<found, answer, client, futures, goal>>

CancelRaises ==
  /\ pc = "cancel"
  /\ pc' = "idle"
  /\ found' = None
  /\ answer' = "unconfirmed"
  /\ UNCHANGED <<client, futures, nav2>>

ResultIsThere ==
  /\ pc = "wait"
  /\ resultEvent
  /\ pc' = "read"
  /\ UNCHANGED <<found, answer, client, futures, nav2>>

WaitTimesOut ==
  /\ pc = "wait"
  /\ ~resultEvent
  /\ pc' = "idle"
  /\ found' = None
  /\ answer' = "unconfirmed"
  /\ UNCHANGED <<client, futures, nav2>>

\* Fault: any end of the goal confirms the stop.
ConfirmsAny == terminal # None

Confirms == terminal \in Ended \cup {"rejected"}

CancelReturns ==
  /\ pc = "read"
  /\ pc' = "idle"
  /\ found' = None
  /\ answer' = IF Confirms THEN "stopped" ELSE "unconfirmed"
  /\ UNCHANGED <<client, futures, nav2>>

ReceiveThread ==
  \/ StartIsRefused \/ BeginGoal \/ SendRaises
  \/ \E blocking \in BOOLEAN : SendGoal(blocking)
  \/ \E near \in BOOLEAN : Poll(near) \/ WaitEnds(near)
  \/ CancelBegins \/ CancelIsSent \/ CancelRaises
  \/ ResultIsThere \/ WaitTimesOut \/ CancelReturns

-----------------------------------------------------------------------------
(* The ROS thread: _on_goal_response, _on_result, _record_result *)

\* Fault: the end of a goal wakes nobody.
RecordResultSilently(g, status) ==
  IF g # generation
  THEN UNCHANGED client
  ELSE /\ terminal' = status
       /\ atGoal' = TRUE
       /\ handle' = None
       /\ UNCHANGED <<generation, cancelRequested, resultEvent>>

\* A result of an earlier goal is dropped.
RecordResult(g, status) ==
  IF g # generation
  THEN UNCHANGED client
  ELSE /\ terminal' = status
       /\ atGoal' = TRUE
       /\ handle' = None
       /\ resultEvent' = TRUE
       /\ UNCHANGED <<generation, cancelRequested>>

ResponseIsRejection(g) ==
  /\ ros = None /\ g \in responseDue /\ goal[g] = "rejected"
  /\ responseDue' = responseDue \ {g}
  /\ IF g # generation
     THEN UNCHANGED client
     ELSE /\ terminal' = "rejected"
          /\ atGoal' = TRUE
          /\ resultEvent' = TRUE
          /\ UNCHANGED <<generation, cancelRequested, handle>>
  /\ UNCHANGED <<caller, ros, resultDue, nav2>>

\* The handle is kept under the lock; the flag is read in the same section.
\* An acceptance of an earlier goal is answered with its cancellation.
ResponseIsAcceptance(g) ==
  /\ ros = None /\ g \in responseDue /\ goal[g] \in {"executing"} \cup Ended
  /\ responseDue' = responseDue \ {g}
  /\ IF g # generation
     THEN /\ cancelAsked' = cancelAsked \cup {g}
          /\ UNCHANGED <<client, ros>>
     ELSE /\ handle' = g
          /\ ros' = [goal |-> g, cancel |-> cancelRequested]
          /\ UNCHANGED <<generation, atGoal, terminal, resultEvent, cancelRequested, cancelAsked>>
  /\ UNCHANGED <<caller, resultDue, goal>>

ResponseRaises(g) ==
  /\ ros = None /\ g \in responseDue
  /\ responseDue' = responseDue \ {g}
  /\ RecordResult(g, "unknown")
  /\ UNCHANGED <<caller, ros, resultDue, nav2>>

\* Fault: a cancellation that came before the acceptance is forgotten.
LateCancelForgotten == {}

LateCancel == IF ros.cancel THEN {ros.goal} ELSE {}

AskForResult ==
  /\ ros # None
  /\ cancelAsked' = cancelAsked \cup LateCancel
  /\ resultDue' = resultDue \cup {ros.goal}
  /\ ros' = None
  /\ UNCHANGED <<caller, client, responseDue, goal>>

\* Either call raises; the cancellation may have gone out.
AskRaises ==
  /\ ros # None
  /\ cancelAsked' \in {cancelAsked, cancelAsked \cup LateCancel}
  /\ RecordResult(ros.goal, "unknown")
  /\ ros' = None
  /\ UNCHANGED <<caller, responseDue, resultDue, goal>>

ResultArrives(g) ==
  /\ ros = None /\ g \in resultDue /\ goal[g] \in Ended
  /\ resultDue' = resultDue \ {g}
  /\ RecordResult(g, goal[g])
  /\ UNCHANGED <<caller, ros, responseDue, nav2>>

\* The future raises, or its status is none of the three.
ResultRaises(g) ==
  /\ ros = None /\ g \in resultDue
  /\ resultDue' = resultDue \ {g}
  /\ RecordResult(g, "unknown")
  /\ UNCHANGED <<caller, ros, responseDue, nav2>>

Callback ==
  \/ AskForResult
  \/ \E g \in Goal : ResponseIsRejection(g) \/ ResponseIsAcceptance(g) \/ ResultArrives(g)

CallbackRaises ==
  \/ AskRaises
  \/ \E g \in Goal : ResponseRaises(g) \/ ResultRaises(g)

RosThread == Callback \/ CallbackRaises

-----------------------------------------------------------------------------
(* Nav2 *)

Decides(g) ==
  /\ goal[g] = "pending"
  /\ goal' = [goal EXCEPT ![g] = "executing"] \/ goal' = [goal EXCEPT ![g] = "rejected"]
  /\ UNCHANGED <<caller, client, futures, cancelAsked>>

\* A goal is cancelled only on request, and a request may come too late.
Ends(g) ==
  /\ goal[g] = "executing"
  /\ \E end \in {"succeeded", "aborted"} \cup (IF g \in cancelAsked THEN {"cancelled"} ELSE {}) :
       goal' = [goal EXCEPT ![g] = end]
  /\ UNCHANGED <<caller, client, futures, cancelAsked>>

EndsOnRequest(g) == g \in cancelAsked /\ Ends(g)

Nav2 == \E g \in Goal : Decides(g) \/ Ends(g)

Next == ReceiveThread \/ RosThread \/ Nav2

Spec == Init /\ [][Next]_vars

\* Nav2 decides on every goal and ends the goals it is asked to cancel, and
\* the ROS thread runs the callbacks that are due (no call has to raise).
Fairness ==
  /\ \A g \in Goal : WF_vars(Decides(g)) /\ WF_vars(EndsOnRequest(g))
  /\ WF_vars(Callback)

FairSpec == Spec /\ Fairness

-----------------------------------------------------------------------------
(* Properties *)

Live == {g \in Goal : goal[g] \in {"pending", "executing"}}
Sent == {g \in Goal : goal[g] # "unsent"}

\* Callbacks of earlier goals are over, and earlier goals with them, when a
\* goal is begun: Nav2 never has two goals of the bridge to choose from, and no
\* late callback can speak for the wrong one.
OnlyLatestIsLive ==
  \A g \in Goal : g < generation =>
    g \notin Live \cup responseDue \cup resultDue /\ (ros # None => ros.goal # g)

\* A goal that is begun will be answered, whichever callbacks raise: as long as
\* its result is missing, a callback is due that sets the event.  The one way in
\* which this is lost is that sending the goal raises; any other stop that times
\* out is waiting for Nav2, or nothing was ever begun.
CallbackDue ==
  \/ generation \in responseDue \cup resultDue
  \/ ros # None /\ ros.goal = generation

AnswerIsDue == ~resultEvent => generation = 0 \/ pc = "begun" \/ CallbackDue

EventIsDue == [][AnswerIsDue => AnswerIsDue' \/ SendRaises]_vars

\* The hooks keep the promises that the lifecycle is built on: a stop is
\* confirmed only when nothing of ours moves the robot in Nav2, not even a goal
\* that has not been accepted yet.
base ==
  IF Live # {} THEN "moving"
  ELSE IF \E g \in Sent : goal[g] = "succeeded" /\ \A h \in Sent : h <= g
  THEN "arrived" ELSE "idle"

Hooks == INSTANCE MotionHooks
HooksSpec == Hooks!Spec

\* A goal ends when Nav2 has been asked to cancel it, and also when it is to be
\* cancelled before its acceptance has given the bridge a handle to ask with.
CancelEndsGoal ==
  cancelRequested /\ CallbackDue /\ (handle = None \/ generation \in cancelAsked)
    ~> terminal # None

=============================================================================
