---------------------------- MODULE MotionHooks ----------------------------
(***************************************************************************)
(* What CommandRuntime relies on in the three hooks of a robot's adapter   *)
(* (BRIDGE_CONTRACT.md): its StartMotion, Stop, Robot and                  *)
(* NavigationSucceeds are these actions.  The robot sets off in a start    *)
(* hook only, a stop that is confirmed finds it at rest, and a success is  *)
(* reported of a goal it has reached.                                      *)
(***************************************************************************)
VARIABLES
  base,    \* "moving", or at rest: "arrived" at its latest goal, or "idle"
  answer   \* what the latest hook has told the runtime

hookVars == <<base, answer>>

Init == base = "idle" /\ answer = "none"

\* A start hook that raises may have set the robot in motion.
Starts == base' = "moving" /\ answer' = "started"
Raises == base' \in {base, "moving"} /\ answer' = "raised"

\* The robot reaches its goal or gives up.
Rests == base = "moving" /\ base' \in {"arrived", "idle"} /\ UNCHANGED answer

StopIsConfirmed   == base # "moving" /\ answer' = "stopped" /\ UNCHANGED base
StopIsUnconfirmed == answer' = "unconfirmed" /\ UNCHANGED base

Succeeds == base = "arrived" /\ answer' = "succeeded" /\ UNCHANGED base
Fails    == answer' = "failed" /\ UNCHANGED base

Next ==
  \/ Starts \/ Raises \/ Rests
  \/ StopIsConfirmed \/ StopIsUnconfirmed
  \/ Succeeds \/ Fails

Spec == Init /\ [][Next]_hookVars

=============================================================================
