-------------------------- MODULE MCCommandRuntime --------------------------
(* Small instances of CommandRuntime for TLC. *)
EXTENDS CommandRuntime

CONSTANTS s1, s2, s3

OneSession    == {s1}
ThreeSessions == {s1, s2, s3}
TwoCommands   == 0..1
ThreeCommands == 0..2
OneBoot       == {0}

Simple(ops) == [op : ops, target : {None}]
Targeted(ops) == [op : ops, target : {<<s1, 0>>}]

MotionPayload ==
  Simple({"xyt", "reactive_goal", "malformed"})
    \cup Targeted({"cancel_navigation", "update_reactive_goal", "cancel_reactive_goal"})

\* One payload of each kind; the commands that address a goal address the first.
AllPayload == MotionPayload \cup Simple({"say", "handle_action", "release_control"})

\* What a hand-over of control depends on: goals, the ends of goals and releases.
HandoverPayload ==
  Simple({"xyt", "reactive_goal", "release_control"})
    \cup Targeted({"cancel_navigation", "cancel_reactive_goal"})
=============================================================================
