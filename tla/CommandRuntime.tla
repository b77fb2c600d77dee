--------------------------- MODULE CommandRuntime ---------------------------
(***************************************************************************)
(* The command lifecycle of a robot server.  One receive thread polls the  *)
(* goal in progress, takes at most one envelope from its socket and, under *)
(* the dispatch lock, has the tracker accept it, calls the robot adapter   *)
(* and records the outcome.  Publisher threads read the receipt history    *)
(* without that lock, so acceptance, the adapter call and the              *)
(* acknowledgement are three steps; each is one critical section of the    *)
(* tracker.                                                                *)
(*                                                                         *)
(* Navigation (CommandRuntime) and reactive goals (ReactiveRuntime) run    *)
(* the same lifecycle over two pairs of fields, so the fields are indexed  *)
(* by kind here.  The adapter is the environment: `base' is what the robot *)
(* does, and the outcome of each hook is any outcome that `base' permits.  *)
(***************************************************************************)
EXTENDS CommandTracker

CONSTANT HasPolicies   \* the adapter measures arrivals and corrects them

VARIABLES
  pc,        \* where the receive thread is
  inflight,  \* the accepted command being dispatched, or None
  verdict,   \* the outcome about to be recorded for it, or None
  current,   \* per kind, the goal the runtime is responsible for, or None
  fault,     \* per kind, its last stop was not confirmed
  monitored, \* an arrival monitor is installed; it outlives its command
  cmdError,  \* identity of the last envelope that was refused, or None
  base       \* what the robot does: "moving", or at rest, "arrived" or "idle"

runtimeVars == <<pc, inflight, verdict, current, fault, monitored, cmdError, base>>
vars == <<trackerVars, runtimeVars>>

\* A marker for absence is not an outcome.
ASSUME RuntimeAssumption == None \notin Status /\ HasPolicies \in BOOLEAN

Kind    == {"navigation", "reactive"}
Refusal == [boot : Boot, key : Key]

TypeOK ==
  /\ TrackerTypeOK
  /\ pc \in {"poll", "correct", "recv", "adapter", "ack", "dead"}
  /\ inflight \in Key \cup {None}
  /\ verdict \in {"running", "succeeded", "failed", None}
  /\ current \in [Kind -> Key \cup {None}]
  /\ fault \in [Kind -> BOOLEAN]
  /\ monitored \in BOOLEAN
  /\ cmdError \in Refusal \cup {None}
  /\ base \in {"idle", "moving", "arrived"}

Init ==
  /\ TrackerInit
  /\ pc = "poll"
  /\ inflight = None
  /\ verdict = None
  /\ current = [kind \in Kind |-> None]
  /\ fault = [kind \in Kind |-> FALSE]
  /\ monitored = FALSE
  /\ cmdError = None
  /\ base = "idle"

Request == receipts[inflight].payload

-----------------------------------------------------------------------------
(* The robot *)

\* The stop hook.  A confirmed stop means that the robot was seen at rest; a
\* controller that had arrived may keep reporting so.  An unconfirmed one, or
\* one that raises, says nothing about the robot.
Stop(from, stopped) ==
  base' \in IF stopped THEN {"idle", from} \ {"moving"} ELSE {from}

\* The controller reaches its goal, or gives up.
BaseArrives == base = "moving" /\ base' = "arrived"
BaseHalts   == base = "moving" /\ base' = "idle"

Robot ==
  /\ BaseArrives \/ BaseHalts
  /\ UNCHANGED <<trackerVars, pc, inflight, verdict, current, fault, monitored, cmdError>>

-----------------------------------------------------------------------------
(* The end of a goal: _finish_cancel and _finish_reactive_cancel *)

Final(status, stopped) == IF stopped THEN status ELSE "failed"

\* The tracker refuses to change a terminal outcome, and the fields that come
\* after the refused call keep their values.
FinishRaises(k, status, stopped) == Conflicts(k, Final(status, stopped))

\* Fault: the motion slot is freed although the stop was not confirmed.
FinishReleasing(kind, k, from, status, stopped) ==
  /\ Stop(from, stopped)
  /\ fault' = [fault EXCEPT ![kind] = ~stopped]
  /\ IF FinishRaises(k, status, stopped)
     THEN /\ current' = [current EXCEPT ![kind] = k]
          /\ UNCHANGED trackerVars
     ELSE /\ Transition(k, Final(status, stopped), stopped, TRUE)
          /\ current' = [current EXCEPT ![kind] = IF stopped THEN None ELSE k]

\* Fault: an unconfirmed stop is recorded in the receipt only.
FinishFaultless(kind, k, from, status, stopped) ==
  /\ Stop(from, stopped)
  /\ UNCHANGED fault
  /\ IF FinishRaises(k, status, stopped)
     THEN /\ current' = [current EXCEPT ![kind] = k]
          /\ UNCHANGED trackerVars
     ELSE /\ Transition(k, Final(status, stopped), stopped, stopped)
          /\ current' = [current EXCEPT ![kind] = IF stopped THEN None ELSE k]

Finish(kind, k, from, status, stopped) ==
  /\ Stop(from, stopped)
  /\ fault' = [fault EXCEPT ![kind] = ~stopped]
  /\ IF FinishRaises(k, status, stopped)
     THEN /\ current' = [current EXCEPT ![kind] = k]
          /\ UNCHANGED trackerVars
     ELSE /\ Transition(k, Final(status, stopped), stopped, stopped)
          /\ current' = [current EXCEPT ![kind] = IF stopped THEN None ELSE k]

-----------------------------------------------------------------------------
(* Receiving an envelope *)

NothingReceived ==
  /\ pc = "recv"
  /\ pc' = "poll"
  /\ UNCHANGED <<trackerVars, inflight, verdict, current, fault, monitored, cmdError, base>>

\* The payload does not validate, or the tracker raises.
RefuseCommand(e) ==
  /\ pc = "recv"
  /\ IsRefused(e)
  /\ cmdError' = [boot |-> e.boot, key |-> e.key]
  /\ pc' = "poll"
  /\ UNCHANGED <<trackerVars, inflight, verdict, current, fault, monitored, base>>

RepeatCommand(e) ==
  /\ pc = "recv"
  /\ IsRetry(e)
  /\ pc' = "poll"
  /\ UNCHANGED <<trackerVars, inflight, verdict, current, fault, monitored, cmdError, base>>

AcceptCommand(e) ==
  /\ pc = "recv"
  /\ Accept(e)
  /\ IF IsBusy(e)
     THEN pc' = "poll" /\ UNCHANGED inflight
     ELSE pc' = "adapter" /\ inflight' = e.key
  /\ UNCHANGED <<verdict, current, fault, monitored, cmdError, base>>

Receive(e) == RefuseCommand(e) \/ RepeatCommand(e) \/ AcceptCommand(e)

-----------------------------------------------------------------------------
(* Dispatching an accepted command *)

Dispatching(ops) == pc = "adapter" /\ Request.op \in ops

\* The adapter returned or raised: the outcome is recorded in the next step.
Answer(outcome) ==
  /\ verdict' = outcome
  /\ pc' = "ack"
  /\ UNCHANGED inflight

\* The dispatch ends without a record of its own.
Return ==
  /\ pc' = "poll"
  /\ inflight' = None
  /\ UNCHANGED verdict

KindOf(op) ==
  IF op \in {"xyt", "cancel_navigation"} THEN "navigation" ELSE "reactive"

\* The identity is installed before the adapter is called.  A start hook that
\* raises may have set the robot in motion, and is followed by a stop.  A
\* navigation goal has an arrival monitor if it names a policy of the adapter.
StartMotion ==
  /\ Dispatching(Motion)
  /\ LET kind == KindOf(Request.op)
     IN \/ /\ base' = "moving"
           /\ current' = [current EXCEPT ![kind] = inflight]
           /\ monitored' \in IF kind = "navigation" THEN {FALSE, HasPolicies} ELSE {monitored}
           /\ Answer("running")
           /\ UNCHANGED <<trackerVars, fault>>
        \/ /\ \E from \in {base, "moving"}, stopped \in BOOLEAN :
                Finish(kind, inflight, from, "failed", stopped)
           /\ monitored' \in {monitored, monitored /\ kind = "reactive"}
           /\ Return
  /\ UNCHANGED cmdError

\* What the history must show of a cancellation target that is not current.
KnownStopped(kind, target) ==
  /\ target \in DOMAIN receipts
  /\ \/ receipts[target].stopConfirmed
     \/ kind = "navigation" /\ receipts[target].status \in {"succeeded", "cancelled"}

\* Fault: the cancellation does not look at the fault that its stop has left.
CancelSucceedsBlindly(goal, stopped) == ~FinishRaises(goal, "cancelled", stopped)

\* The cancellation is answered with success if its stop was confirmed and the
\* tracker took the outcome.
CancelSucceeds(goal, stopped) ==
  stopped /\ ~FinishRaises(goal, "cancelled", stopped)

\* Only a reactive goal refuses to be cancelled again after an unconfirmed stop.
CancelMotion ==
  /\ Dispatching({"cancel_navigation", "cancel_reactive_goal"})
  /\ LET kind == KindOf(Request.op)
         target == Request.target
         goal == current[kind]
     IN \/ /\ goal = None
           /\ Answer(IF KnownStopped(kind, target) /\ ~fault[kind]
                     THEN "succeeded" ELSE "failed")
           /\ UNCHANGED <<trackerVars, current, fault, base>>
        \/ /\ goal # None
           /\ target # goal \/ (kind = "reactive" /\ fault[kind])
           /\ Answer("failed")
           /\ UNCHANGED <<trackerVars, current, fault, base>>
        \/ /\ goal # None /\ target = goal
           /\ ~(kind = "reactive" /\ fault[kind])
           /\ \E stopped \in BOOLEAN :
                /\ Finish(kind, goal, base, "cancelled", stopped)
                /\ Answer(IF CancelSucceeds(goal, stopped) THEN "succeeded" ELSE "failed")
  /\ UNCHANGED <<monitored, cmdError>>

\* Replace the reactive goal without extending its deadline.
UpdateGoal ==
  /\ Dispatching({"update_reactive_goal"})
  /\ LET goal == current["reactive"]
         addressed == goal # None /\ Request.target = goal /\ ~fault["reactive"]
     IN \/ /\ ~addressed
           /\ Answer("failed")
           /\ UNCHANGED <<trackerVars, current, fault, base>>
        \/ /\ addressed                 \* expired, or the hook raises
           /\ \E from \in {base} \cup (IF InTime THEN {"moving"} ELSE {}),
                 stopped \in BOOLEAN :
                Finish("reactive", goal, from, "failed", stopped)
           /\ Answer("failed")
        \/ /\ addressed /\ InTime
           /\ base' = "moving"
           /\ Transition(goal, "running", FALSE, TRUE)
           /\ Answer("succeeded")
           /\ UNCHANGED <<current, fault>>
  /\ UNCHANGED <<monitored, cmdError>>

Release ==
  /\ Dispatching({"release_control"})
  /\ IF CanRelease(Owner(inflight))
     THEN ReleaseControl(Owner(inflight)) /\ Answer("succeeded")
     ELSE UNCHANGED trackerVars /\ Answer("failed")
  /\ UNCHANGED <<current, fault, monitored, cmdError, base>>

\* Posture, joint, gripper and speech commands, and simulator queries.
HandleAction ==
  /\ Dispatching({"handle_action", "say"})
  /\ \E outcome \in {"succeeded", "failed"} : Answer(outcome)
  /\ UNCHANGED <<trackerVars, current, fault, monitored, cmdError, base>>

Acknowledge ==
  /\ pc = "ack"
  /\ Transition(inflight, verdict, FALSE, TRUE)
  /\ pc' = "poll"
  /\ inflight' = None
  /\ verdict' = None
  /\ UNCHANGED <<current, fault, monitored, cmdError, base>>

Dispatch ==
  StartMotion \/ CancelMotion \/ UpdateGoal \/ Release \/ HandleAction \/ Acknowledge

-----------------------------------------------------------------------------
(* Polling the goal in progress *)

Polled(kind) == pc = "poll" /\ current[kind] # None /\ ~fault[kind]

NoGoal ==
  /\ pc = "poll"
  /\ ~\E kind \in Kind : Polled(kind)
  /\ pc' = "recv"
  /\ UNCHANGED <<trackerVars, inflight, verdict, current, fault, monitored, cmdError, base>>

GoalInProgress(kind) ==
  /\ Polled(kind)
  /\ InTime
  /\ pc' = "recv"
  /\ UNCHANGED <<trackerVars, inflight, verdict, current, fault, monitored, cmdError, base>>

\* The deadline, a failure or an exception of the hook ends the goal with a
\* stop; so does the arrival of a reactive goal.
GoalEnds(kind) ==
  /\ Polled(kind)
  /\ \E status \in {"failed"} \cup
                   (IF kind = "reactive" /\ base = "arrived" /\ InTime
                    THEN {"succeeded"} ELSE {}),
        stopped \in BOOLEAN :
       /\ Finish(kind, current[kind], base, status, stopped)
       /\ pc' = IF FinishRaises(current[kind], status, stopped) THEN "dead" ELSE "recv"
  /\ UNCHANGED <<inflight, verdict, monitored, cmdError>>

\* A navigation goal that has arrived is over without a stop.  An exception of
\* the tracker here leaves the receive thread.
NavigationSucceeds ==
  /\ Polled("navigation")
  /\ base = "arrived" /\ InTime
  /\ IF Conflicts(current["navigation"], "succeeded")
     THEN pc' = "dead" /\ UNCHANGED <<trackerVars, current>>
     ELSE /\ Transition(current["navigation"], "succeeded", FALSE, TRUE)
          /\ current' = [current EXCEPT !["navigation"] = None]
          /\ pc' = "recv"
  /\ UNCHANGED <<inflight, verdict, fault, monitored, cmdError, base>>

\* The arrival monitor measured a robot at rest outside the tolerance: it asks
\* for a correction, which takes a confirmed stop first.
CorrectionStops ==
  /\ Polled("navigation") /\ monitored
  /\ base # "moving" /\ InTime
  /\ Stop(base, TRUE)
  /\ pc' = "correct"
  /\ UNCHANGED <<trackerVars, inflight, verdict, current, fault, monitored, cmdError>>

\* Then the controller is started again for the same goal, unless its deadline
\* or the start hook forbids it.  That deadline was taken once the first start
\* had returned, so it may lie beyond the one the tracker knows.
CorrectionStarts ==
  /\ pc = "correct"
  /\ \/ /\ base' = "moving"
        /\ pc' = "recv"
        /\ UNCHANGED <<trackerVars, current, fault>>
     \/ \E from \in {base, "moving"}, stopped \in BOOLEAN :
          /\ Finish("navigation", current["navigation"], from, "failed", stopped)
          /\ pc' = IF FinishRaises(current["navigation"], "failed", stopped)
                   THEN "dead" ELSE "recv"
  /\ UNCHANGED <<inflight, verdict, monitored, cmdError>>

Poll ==
  \/ NoGoal
  \/ \E kind \in Kind : GoalInProgress(kind) \/ GoalEnds(kind)
  \/ NavigationSucceeds
  \/ CorrectionStops
  \/ CorrectionStarts

-----------------------------------------------------------------------------

Clock == Expire /\ UNCHANGED runtimeVars

ReceiveLoop == Poll \/ NothingReceived \/ Dispatch

Next ==
  \/ \E e \in Envelope : Receive(e)
  \/ ReceiveLoop
  \/ Robot
  \/ Clock

Spec == Init /\ [][Next]_vars

\* The receive thread is never starved and the clock never stands still; the
\* robot and the clients owe nothing.
FairSpec == Spec /\ WF_vars(ReceiveLoop) /\ WF_vars(Clock)

-----------------------------------------------------------------------------
(* Properties *)

\* At most one goal is in progress, and it is the one whose receipt holds the
\* motion slot: what the runtime would stop is what the tracker thinks active.
OneGoal ==
  /\ \A kind \in Kind : current[kind] # None => current[kind] = active
  /\ \E kind \in Kind : current[kind] = None

\* The robot moves only on behalf of a command of the session in control.
MotionIsOwned ==
  base = "moving" => active # None /\ Owner(active) = session

\* In any receipt history a publisher can capture, a cancellation that reports
\* success shows its target over: a client that has seen the acknowledgement
\* needs no second look at the goal (dispatch_command, _dispatch_reactive).
CancelIsTruthful ==
  \A k \in DOMAIN receipts :
    LET payload == receipts[k].payload
    IN /\ payload.op \in {"cancel_navigation", "cancel_reactive_goal"}
       /\ receipts[k].status = "succeeded"
       /\ payload.target \in DOMAIN receipts
       => /\ receipts[payload.target].status \in Terminal
          /\ active # payload.target

\* When the deadline of a running goal has passed, no update sets the robot in
\* motion again and no correction is begun; one that had already stopped the
\* robot may go on (poll_navigation_command, _dispatch_reactive).
NoMotionPastDeadline ==
  [][(ExpiredNavigation /\ receipts[active].status = "running" /\ pc # "correct")
       => /\ base' = "moving" => base = "moving"
          /\ pc' # "correct"]_vars

\* The dispatch in progress always finds its receipt: transition() is never
\* called for an identity that has been evicted under it.
InflightRetained == inflight # None => inflight \in DOMAIN receipts

\* Every command that takes the motion slot gets a final receipt, whatever the
\* robot does and whether or not its client is still there.
GoalIsSettled ==
  \A k \in Key :
    active = k ~> (k \notin DOMAIN receipts \/ receipts[k].status \in Terminal)

\* A robot in motion comes to rest, or its stop has been tried and reported
\* as unconfirmed.
MotionEnds ==
  base = "moving" ~> (base # "moving" \/ \E kind \in Kind : fault[kind])

\* The command lifecycle implements the abstract motion authority.
Authority == INSTANCE MotionAuthority WITH
  owner <- session,
  spent <- {l.key : l \in ledger},
  slot <- active,
  moving <- (base = "moving")

AuthoritySpec == Authority!Spec

\* "An unconfirmed stop locks navigation until inspection/restart": once the
\* command in the slot has ended without a confirmed stop, nothing sets the
\* robot in motion again.
UnconfirmedStopLocks ==
  [][(active # None /\ active \in DOMAIN receipts
        /\ receipts[active].status \in Terminal)
       => (base' = "moving" => base = "moving")]_vars

=============================================================================
